---- MODULE Spec2Model ----
(***************************************************************************)
(* Model of crates/demo-esp32-s3/storage-dump.py: the byte cursor and its  *)
(* decoders, the header and segment decoders, the recursive segment walk   *)
(* and the graph.dot export.                                                *)
(*                                                                         *)
(* Bytes are integers 0..255, byte strings are sequences.  A decoder that  *)
(* takes a cursor is an operator of the buffer and the position; it gives  *)
(* a record: ok (no exception), v (the value returned), c (the cursor      *)
(* position when it returned or raised) and err (the exception).  A Python *)
(* None is the empty sequence and a value x that may be None is <<x>>.     *)
(***************************************************************************)
EXTENDS Integers, Sequences, FiniteSets, TLC

DATA_OFFSET == 4096
STORAGE_HEADER_MAGIC == <<28, 83, 79, 0>>
SEGMENT_HEADER_MAGIC == <<30, 83, 79, 0>>

Min(x, y) == IF x < y THEN x ELSE y

RECURSIVE Pow(_, _)
Pow(x, n) == IF n = 0 THEN 1 ELSE x * Pow(x, n - 1)

Zeros(n) == [i \in 1..n |-> 0]

Ok(v, c) == [ok |-> TRUE, v |-> <<v>>, c |-> c, err |-> "none"]
Fail(e, c) == [ok |-> FALSE, v |-> <<>>, c |-> c, err |-> e]

\* Python's b[i:j] for 0 <= i: the bytes at positions i..j-1 that exist.
Slice(b, i, j) == SubSeq(b, i + 1, Min(j, Len(b)))

\* struct.unpack('<H' / '<I', b): little-endian value of a byte string.
RECURSIVE UnpackLE(_)
UnpackLE(bs) == IF bs = <<>> THEN 0 ELSE Head(bs) + 256 * UnpackLE(Tail(bs))

\* Cursor.align: the position after align(to).
align(c, to) == IF c % to # 0 THEN c + (to - (c % to)) ELSE c

\* Cursor.get_u8: indexing past the end raises IndexError, position unchanged.
get_u8(b, c) == IF c < Len(b) THEN Ok(b[c + 1], c + 1) ELSE Fail("IndexError", c)

\* The rest K of a decoder runs on the result r of a step unless the step
\* raised.  (r is taken through a set so that it is evaluated once.)
Then(r, K(_)) == CHOOSE y \in {IF x.ok THEN K(x) ELSE x : x \in {r}} : TRUE

get_bool(b, c) == Then(get_u8(b, c), LAMBDA r : Ok(r.v[1] # 0, r.c))

\* Cursor.peek_bytes: a slice, never an error, shorter than n at the end.
peek_bytes(b, c, n) == Slice(b, c, c + n)

\* Cursor.get_bytes: the slice, and the position advanced by n whatever its length.
get_bytes(b, c, n) == Ok(peek_bytes(b, c, n), c + n)

\* struct.unpack on the bytes get_bytes returned: struct.error unless there
\* are exactly w of them.
unpack(r, w) ==
    IF Len(r.v[1]) = w THEN Ok(UnpackLE(r.v[1]), r.c) ELSE Fail("struct.error", r.c)

\* Cursor.get_u16 / get_u32: align in rkyv mode, get_bytes, struct.unpack.
get_u16(b, c, rkyv) == unpack(get_bytes(b, IF rkyv THEN align(c, 4) ELSE c, 2), 2)
get_u32(b, c, rkyv) == unpack(get_bytes(b, IF rkyv THEN align(c, 4) ELSE c, 4), 4)

\* Cursor.get_leb, the reading loop: vl is the list of 7-bit groups read so far.
RECURSIVE leb_read(_, _, _)
leb_read(b, c, vl) ==
    Then(get_u8(b, c), LAMBDA r :
         IF r.v[1] >= 128 THEN leb_read(b, r.c, Append(vl, r.v[1] % 128))
         ELSE Ok(Append(vl, r.v[1]), r.c))

\* Cursor.get_leb, the folding loop: for vv in reversed(vl): v = (v << 7) | vv.
RECURSIVE leb_fold_Forward(_, _, _)
leb_fold_Forward(vl, i, v) ==
    IF i = 0 THEN v ELSE leb_fold_Forward(vl, i - 1, v + vl[Len(vl) - i + 1] * Pow(128, i - 1))
RECURSIVE leb_fold(_, _, _)
leb_fold(vl, i, v) == IF i = 0 THEN v ELSE leb_fold(vl, i - 1, v * 128 + vl[i])

get_leb(b, c) ==
    Then(leb_read(b, c, <<>>), LAMBDA r : Ok(leb_fold(r.v[1], Len(r.v[1]), 0), r.c))

\* Cursor.get_byte_array: a varint length, then get_bytes of that length.
get_byte_array(b, c) == Then(get_leb(b, c), LAMBDA l : get_bytes(b, l.c, l.v[1]))

\* A subtype decoder (the decoder / subtype argument of get_option, get_array
\* and Prior) is named by a string d; Decode(d, b, c) is the call decoder(c).
RECURSIVE Decode(_, _, _)

\* The loop of Prior.__init__ and of Cursor.get_array: n values, one after the
\* other, appended to acc; the first failure ends it.
RECURSIVE decode_n(_, _, _, _, _)
decode_n(d, b, c, n, acc) ==
    IF n = 0 THEN Ok(acc, c)
    ELSE Then(Decode(d, b, c), LAMBDA r : decode_n(d, b, r.c, n - 1, Append(acc, r.v[1])))

\* Cursor.get_option: a presence byte, then the value if it is not zero.
get_option(d, b, c) ==
    Then(get_bool(b, c), LAMBDA e :
         IF e.v[1] THEN Then(Decode(d, b, e.c), LAMBDA r : Ok(r.v, r.c)) ELSE Ok(<<>>, e.c))

\* Cursor.get_array: a varint count, then that many values.
get_array(d, b, c) ==
    Then(get_leb(b, c), LAMBDA l : decode_n(d, b, l.c, l.v[1], <<>>))

\* Prior.__init__ (Cursor.get_prior): a varint count of at most 2, then the values.
Prior_AtMostOne(d, b, c) ==
    Then(get_leb(b, c), LAMBDA t :
         IF t.v[1] >= 2 THEN Fail("too many items in prior", t.c)
         ELSE decode_n(d, b, t.c, t.v[1], <<>>))
Prior(d, b, c) ==
    Then(get_leb(b, c), LAMBDA t :
         IF t.v[1] > 2 THEN Fail("too many items in prior", t.c)
         ELSE decode_n(d, b, t.c, t.v[1], <<>>))

\* Two values one after the other, as a pair.
pair(d1, d2, b, c) ==
    Then(Decode(d1, b, c), LAMBDA l1 :
         Then(Decode(d2, b, l1.c), LAMBDA l2 : Ok(<<l1.v[1], l2.v[1]>>, l2.c)))

decode_location(b, c) == pair("leb", "leb", b, c)

\* lambda c: c.get_bytes(32) of Header.__init__, and the hash of an Address.
get_bytes32(b, c) == get_bytes(b, c, 32)

decode_address(b, c) == pair("bytes32", "leb", b, c)

\* lambda c: (c.get_u32(), c.get_u32()) of Header.__init__, on its rkyv cursor.
get_u32_rkyv(b, c) == get_u32(b, c, TRUE)
decode_u32_pair(b, c) == pair("u32_rkyv", "u32_rkyv", b, c)

\* lambda c: ((c.get_leb(), c.get_leb()), c.get_leb()) of Segment.decode_data.
decode_skip(b, c) == pair("location", "leb", b, c)

\* The updates lambda of CommandData.__init__: its tuple starts with
\* c.get_string(), a method class Cursor does not define, so the call raises
\* AttributeError before anything is read.
decode_update(b, c) == Fail("AttributeError", c)

\* self.priority_value of CommandData.__init__: a varint if priority is 1.
priority_value(b, pr) ==
    IF pr.v[1] = 1 THEN Then(get_leb(b, pr.c), LAMBDA r : Ok(r.v, r.c))
    ELSE Ok(<<>>, pr.c)

\* CommandData.__init__
CommandData(b, c) ==
    Then(get_bytes(b, c, 32), LAMBDA id :
    Then(get_leb(b, id.c), LAMBDA pr :
    Then(priority_value(b, pr), LAMBDA pv :
    Then(get_option("byte_array", b, pv.c), LAMBDA po :
    Then(get_byte_array(b, po.c), LAMBDA da :
    Then(get_array("update", b, da.c), LAMBDA up :
         Ok([id |-> id.v[1], priority |-> pr.v[1], priority_value |-> pv.v[1],
             policy |-> po.v[1], data |-> da.v[1], updates |-> up.v[1]], up.c)))))))

\* The decoders that are passed as arguments, by name.
Decode(d, b, c) ==
    CASE d = "leb"        -> get_leb(b, c)
      [] d = "bytes32"    -> get_bytes32(b, c)
      [] d = "u32_rkyv"   -> get_u32_rkyv(b, c)
      [] d = "u32_pair"   -> decode_u32_pair(b, c)
      [] d = "byte_array" -> get_byte_array(b, c)
      [] d = "location"   -> decode_location(b, c)
      [] d = "address"    -> decode_address(b, c)
      [] d = "skip"       -> decode_skip(b, c)
      [] d = "update"     -> decode_update(b, c)
      [] d = "command"    -> CommandData(b, c)

(***************************************************************************)
(* The dump b.  Header reads below position HEADER_SPAN only, and Segment  *)
(* reads at offset + DATA_OFFSET and above, with offset >= 0; the bytes in *)
(* between are never read.  b is kept as the bytes it starts with and the  *)
(* bytes from DATA_OFFSET on: b = head \o (bytes never read) \o body.       *)
(***************************************************************************)
HEADER_SPAN == 64

FileLen(f) == DATA_OFFSET + Len(f.body)

\* b[i:j], for a slice that lies in one of the two parts.
FileSlice(f, i, j) ==
    IF i >= DATA_OFFSET THEN Slice(f.body, i - DATA_OFFSET, j - DATA_OFFSET)
    ELSE Slice(f.head, i, j)

\* Header.__init__: a cursor in rkyv mode over b.  c of a failure is the
\* cursor position at the raise.
check_magic_Skip(r, magic, e) == r
check_magic(r, magic, e) == IF r.v[1] # magic THEN Fail(e, r.c) ELSE r

Header(f) ==
    Then(check_magic(get_bytes(f.head, 0, 4), STORAGE_HEADER_MAGIC, "bad header magic"),
         LAMBDA mg :
    Then(get_u32(f.head, mg.c, TRUE), LAMBDA ep :
    Then(get_option("bytes32", f.head, ep.c), LAMBDA gi :
    Then(get_option("u32_pair", f.head, align(gi.c, 4)), LAMBDA hd :
    Then(get_u32(f.head, hd.c, TRUE), LAMBDA sb :
         Ok([epoch |-> ep.v[1], graph_id |-> gi.v[1], head |-> hd.v[1],
             stored_bytes |-> sb.v[1]], sb.c))))))

\* The classification at the end of Segment.decode_data.
SegmentType(parents) ==
    CASE Len(parents) = 0 -> "init"
      [] Len(parents) = 1 -> "basic"
      [] Len(parents) = 2 -> "merge"

\* Segment.decode_data: a cursor (not rkyv) over the payload.
decode_data(data) ==
    Then(get_leb(data, 0), LAMBDA of :
    Then(Prior("location", data, of.c), LAMBDA pr :
    Then(Prior("address", data, pr.c), LAMBDA pa :
    Then(get_bytes(data, pa.c, 32), LAMBDA po :
    Then(get_leb(data, po.c), LAMBDA fa :
    Then(get_array("command", data, fa.c), LAMBDA cm :
    Then(get_leb(data, cm.c), LAMBDA mc :
    Then(get_array("skip", data, mc.c), LAMBDA sk :
         Ok([prior |-> pr.v[1], parents |-> pa.v[1], policy |-> po.v[1],
             facts |-> fa.v[1], type |-> SegmentType(pa.v[1])], sk.c)))))))))

\* struct.unpack_from('<I', b, at): struct.error unless 4 bytes follow at.
unpack_from(f, at) ==
    IF FileLen(f) - at < 4 THEN Fail("struct.error", at)
    ELSE Ok(UnpackLE(FileSlice(f, at, at + 4)), at + 4)

\* The payload of Segment.read decoded, positions counted in b.
read_data(f, at, size) ==
    LET d == decode_data(FileSlice(f, at, at + size)) IN [d EXCEPT !.c = at + d.c]

\* Segment.__init__ and Segment.read.  c of a failure is the position in b
\* up to which the segment had been read at the raise.
Segment(f, offset) ==
    Then(check_magic(Ok(FileSlice(f, offset + DATA_OFFSET, offset + DATA_OFFSET + 4),
                        offset + DATA_OFFSET + 4),
                     SEGMENT_HEADER_MAGIC, "bad segment header magic"), LAMBDA mg :
    Then(unpack_from(f, mg.c), LAMBDA sz :
    Then(read_data(f, sz.c, sz.v[1]), LAMBDA d :
         Ok([offset |-> offset, size |-> sz.v[1], prior |-> d.v[1].prior,
             parents |-> d.v[1].parents, policy |-> d.v[1].policy,
             facts |-> d.v[1].facts, type |-> d.v[1].type], d.c))))

(***************************************************************************)
(* The dumps the program is run on.  A dump is described by the prior list *)
(* of each of its slots and by at most one defect; Dump gives its bytes,   *)
(* laid out as the decoders above read them.                               *)
(***************************************************************************)
NumSlots == 3
SlotSize == 192
MaxWeight == 3

Slots == 0..(NumSlots - 1)
SlotOffset(k) == k * SlotSize
\* An offset whose sub-header would lie past the end of the dump.
OutsideOffset == NumSlots * SlotSize
HeadSlot == NumSlots - 1

RECURSIVE EncLeb(_)
EncLeb(n) == IF n < 128 THEN <<n>> ELSE <<(n % 128) + 128>> \o EncLeb(n \div 128)

EncU32(n) == [i \in 1..4 |-> (n \div Pow(256, i - 1)) % 256]

RECURSIVE Concat(_)
Concat(ss) == IF ss = <<>> THEN <<>> ELSE Head(ss) \o Concat(Tail(ss))

PadTo(bs, n) == bs \o Zeros(n - Len(bs))

Hash(x) == [i \in 1..32 |-> x]

SegDefects == {"seg_magic", "overflow", "short", "updates", "dangling"}
HeaderDefects == {"hdr_magic", "no_head"}

\* The prior list slot k encodes: its targets, the j-th paired with j - 1.
PriorOf(d, k) ==
    LET ts == IF d.defect = "dangling" /\ d.at = k
              THEN <<OutsideOffset>> \o (IF d.g[k] = <<>> THEN <<>> ELSE Tail(d.g[k]))
              ELSE d.g[k]
    IN [j \in 1..Len(ts) |-> <<ts[j], j - 1>>]

\* One Address per prior entry: a 32-byte hash and an index.
ParentsOf(d, k) == [j \in 1..Len(PriorOf(d, k)) |-> <<Hash(160 + j), SlotOffset(k) + j>>]

EncLocation(l) == EncLeb(l[1]) \o EncLeb(l[2])
EncAddress(a) == a[1] \o EncLeb(a[2])

\* A command: priority Basic with value 150, no policy, two bytes of data,
\* and nu update records (name "k", one value, no delta).
EncCommand(tagv, pv, policy, data, nu) ==
    Hash(7) \o EncLeb(tagv) \o (IF tagv = 1 THEN EncLeb(pv) ELSE <<>>)
    \o (IF policy = <<>> THEN <<0>> ELSE <<1>> \o EncLeb(Len(policy[1])) \o policy[1])
    \o EncLeb(Len(data)) \o data
    \o EncLeb(nu) \o Concat([i \in 1..nu |-> <<1, 107, 1, 1, 9, 0>>])

EncPayload(d, k) ==
    LET pr == PriorOf(d, k)
        pa == ParentsOf(d, k)
        over == d.defect = "overflow" /\ d.at = k
    IN EncLeb(SlotOffset(k))
       \o (IF over THEN <<3>> \o Concat([j \in 1..3 |-> EncLocation(<<0, j>>)])
           ELSE EncLeb(Len(pr)) \o Concat([j \in 1..Len(pr) |-> EncLocation(pr[j])]))
       \o EncLeb(Len(pa)) \o Concat([j \in 1..Len(pa) |-> EncAddress(pa[j])])
       \o Hash(17) \o EncLeb(k + 1)
       \o <<1>> \o EncCommand(1, 150, <<>>, <<5, 6>>,
                              IF d.defect = "updates" /\ d.at = k THEN 1 ELSE 0)
       \o EncLeb(k) \o <<1>> \o EncLeb(SlotOffset(k)) \o <<0, 1>>

EncSlot(d, k) ==
    LET pl == EncPayload(d, k) IN
    PadTo((IF d.defect = "seg_magic" /\ d.at = k
           THEN STORAGE_HEADER_MAGIC ELSE SEGMENT_HEADER_MAGIC)
          \o EncU32(IF d.defect = "short" /\ d.at = k THEN 2 ELSE Len(pl))
          \o pl, SlotSize)

EncHeader(d) ==
    PadTo((IF d.defect = "hdr_magic" THEN SEGMENT_HEADER_MAGIC ELSE STORAGE_HEADER_MAGIC)
          \o EncU32(1)
          \o (IF d.gid THEN <<1>> \o Hash(204) \o Zeros(3) ELSE <<0>> \o Zeros(3))
          \o (IF d.defect = "no_head" THEN <<0>> \o Zeros(3)
              ELSE <<1>> \o Zeros(3) \o EncU32(SlotOffset(HeadSlot)) \o EncU32(0))
          \o EncU32(NumSlots * SlotSize), HEADER_SPAN)

Dump(d) == [head |-> EncHeader(d),
            body |-> Concat([i \in 1..NumSlots |-> EncSlot(d, i - 1)])]

PriorLists == {<<>>} \cup {<<t>> : t \in {SlotOffset(k) : k \in Slots}}
              \cup {<<t, u>> : t, u \in {SlotOffset(k) : k \in Slots}}

RECURSIVE SumLen(_, _)
SumLen(g, k) == IF k < 0 THEN 0 ELSE Len(g[k]) + SumLen(g, k - 1)

Weight(d) == SumLen(d.g, NumSlots - 1) + (IF d.defect \in SegDefects THEN 1 ELSE 0)

Graphs == {g \in [Slots -> PriorLists] : SumLen(g, NumSlots - 1) <= MaxWeight}

Dumps ==
    {[g |-> g, gid |-> FALSE, defect |-> "none", at |-> 0] : g \in Graphs}
    \cup {[g |-> g, gid |-> TRUE, defect |-> "none", at |-> 0] : g \in Graphs}
    \cup {[g |-> [k \in Slots |-> <<>>], gid |-> FALSE, defect |-> x, at |-> 0] :
            x \in HeaderDefects}
    \cup {d \in [g : Graphs, gid : {FALSE}, defect : SegDefects, at : Slots] :
            Weight(d) <= MaxWeight}

(***************************************************************************)
(* The program: the module-level statements of lines 179-204.              *)
(***************************************************************************)
VARIABLES
    src,        \* what a Cursor under test was built over
    cur,        \* a Cursor: its fields b, c and rkyv
    last,       \* the last call made on cur: op, its argument n, c before it, its result r
    dump,       \* what the file holds: the description its bytes were laid out from
    b,          \* the bytes read from the file (lines 8-10)
    pc,         \* the statement the module is at
    h,          \* <<Header>> once decoded
    head_seg,   \* <<Segment>> once decoded
    segments,   \* the dict segments: its items [key, seg] in insertion order
    stack,      \* the frames of walk_segment_tree: the segment and the loop index
    arg,        \* <<offset>> of a call of walk_segment_tree not yet entered
    dot,        \* the file graph.dot: "unopened", "open", "closed"
    out,        \* what has been written to it
    k,          \* the position of the export loop in segments.values()
    err,        \* the exception that ended the run
    calls       \* every invocation of Segment(offset) so far: [offset, by]

vars == <<src, cur, last, dump, b, pc, h, head_seg, segments, stack, arg, dot, out, k, err, calls>>

Keys(segs) == {segs[i].key : i \in 1..Len(segs)}

\* line 186: offset in segments
InSegments_Never(offset, segs) == FALSE
InSegments(offset, segs) == \E i \in 1..Len(segs) : segs[i].key = offset

\* line 189: segments[offset] = seg; a new key goes last, an old one keeps its place.
Put_Forget(segs, offset, seg) == segs
Put(segs, offset, seg) ==
    IF \E i \in 1..Len(segs) : segs[i].key = offset
    THEN [i \in 1..Len(segs) |->
            IF segs[i].key = offset THEN [key |-> offset, seg |-> seg] ELSE segs[i]]
    ELSE Append(segs, [key |-> offset, seg |-> seg])

\* line 193: the offset walk_segment_tree(p[0]) is called with.
PriorTarget_Second(p) == p[2]
PriorTarget(p) == p[1]

\* The interpreter's recursion limit, in frames of walk_segment_tree.
MaxDepth == 6

NoCall == [op |-> "none", n |-> 0, c0 |-> 0, r |-> Ok(0, 0)]

Init ==
    /\ src = [kind |-> "none"]
    /\ cur = [b |-> <<>>, c |-> 0, rkyv |-> FALSE]
    /\ last = NoCall
    /\ dump \in Dumps
    /\ b = Dump(dump)
    /\ pc = "header"
    /\ h = <<>>
    /\ head_seg = <<>>
    /\ segments = <<>>
    /\ stack = <<>>
    /\ arg = <<>>
    /\ dot = "unopened"
    /\ out = <<>>
    /\ k = 0
    /\ err = "none"
    /\ calls = <<>>

Raise_Continue(e) ==
    /\ pc' = "walk"
    /\ err' = e

\* An exception nothing catches: the interpreter ends the run.
Raise(e) ==
    /\ pc' = "failed"
    /\ err' = e

\* line 180: h = Header(b)
ReadHeader ==
    /\ pc = "header"
    /\ \E r \in {Header(b)} :
       IF r.ok THEN /\ h' = r.v
                    /\ pc' = "head_seg"
                    /\ err' = err
       ELSE /\ Raise(r.err)
            /\ h' = h
    /\ UNCHANGED <<src, cur, last, dump, b, head_seg, segments, stack, arg, dot, out, k, calls>>

\* line 182: head_seg = Segment(h.head[0]); h.head is None without a head.
DecodeHead ==
    /\ pc = "head_seg"
    /\ IF h[1].head = <<>>
       THEN /\ Raise("TypeError")
            /\ UNCHANGED <<head_seg, arg, calls>>
       ELSE \E off \in {h[1].head[1][1]} : \E r \in {Segment(b, off)} :
               /\ calls' = Append(calls, [offset |-> off, by |-> "driver"])
               /\ IF r.ok THEN /\ head_seg' = r.v
                               /\ pc' = "walk"
                               /\ arg' = <<off>>
                               /\ err' = err
                  ELSE /\ Raise(r.err)
                       /\ UNCHANGED <<head_seg, arg>>
    /\ UNCHANGED <<src, cur, last, dump, b, h, segments, stack, dot, out, k>>

\* lines 186-189: the entry of walk_segment_tree(offset) up to the loop.  The
\* interpreter raises RecursionError on a call deeper than its limit.
WalkEnter ==
    /\ pc = "walk"
    /\ arg # <<>>
    /\ \E offset \in {arg[1]} :
       IF Len(stack) >= MaxDepth
       THEN /\ Raise("RecursionError")
            /\ UNCHANGED <<segments, stack, arg, calls>>
       ELSE IF InSegments(offset, segments)
       THEN /\ arg' = <<>>
            /\ UNCHANGED <<segments, stack, calls, pc, err>>
       ELSE \E r \in {Segment(b, offset)} :
            /\ calls' = Append(calls, [offset |-> offset, by |-> "walk"])
            /\ IF r.ok THEN /\ segments' = Put(segments, offset, r.v[1])
                            /\ stack' = Append(stack, [seg |-> r.v[1], i |-> 1])
                            /\ arg' = <<>>
                            /\ UNCHANGED <<pc, err>>
               ELSE /\ Raise(r.err)
                    /\ UNCHANGED <<segments, stack, arg>>
    /\ UNCHANGED <<src, cur, last, dump, b, h, head_seg, dot, out, k>>

\* lines 192-193: one iteration of "for p in seg.prior", the recursive call.
WalkIter ==
    /\ pc = "walk"
    /\ arg = <<>>
    /\ stack # <<>>
    /\ LET top == stack[Len(stack)] IN
       /\ top.i <= Len(top.seg.prior)
       /\ arg' = <<PriorTarget(top.seg.prior[top.i])>>
       /\ stack' = [stack EXCEPT ![Len(stack)].i = top.i + 1]
    /\ UNCHANGED <<src, cur, last, dump, b, pc, h, head_seg, segments, dot, out, k, err, calls>>

\* the end of the loop: walk_segment_tree returns to its caller.
WalkReturn ==
    /\ pc = "walk"
    /\ arg = <<>>
    /\ stack # <<>>
    /\ LET top == stack[Len(stack)] IN top.i > Len(top.seg.prior)
    /\ stack' = SubSeq(stack, 1, Len(stack) - 1)
    /\ UNCHANGED <<src, cur, last, dump, b, pc, h, head_seg, segments, arg, dot, out, k, err, calls>>

\* lines 196-197, after the outermost call has returned.
OpenDot ==
    /\ pc = "walk"
    /\ arg = <<>>
    /\ stack = <<>>
    /\ dot' = "open"
    /\ out' = <<[kind |-> "digraph", from |-> 0, to |-> 0]>>
    /\ k' = 1
    /\ pc' = "export"
    /\ UNCHANGED <<src, cur, last, dump, b, h, head_seg, segments, stack, arg, err, calls>>

\* The edge lines of one segment, lines 200-202.
EdgesOf_Distinct(s) ==
    [j \in 1..(IF Len(s.prior) = 2 /\ s.prior[1][1] = s.prior[2][1] THEN 1 ELSE Len(s.prior)) |->
        [kind |-> "edge", from |-> s.offset, to |-> s.prior[j][1]]]
EdgesOf(s) == [j \in 1..Len(s.prior) |->
                 [kind |-> "edge", from |-> s.offset, to |-> s.prior[j][1]]]

\* lines 198-202: one iteration of "for s in segments.values()".
ExportSegment ==
    /\ pc = "export"
    /\ k <= Len(segments)
    /\ out' = out \o <<[kind |-> "node", from |-> segments[k].seg.offset, to |-> 0]>>
                  \o EdgesOf(segments[k].seg)
    /\ k' = k + 1
    /\ UNCHANGED <<src, cur, last, dump, b, pc, h, head_seg, segments, stack, arg, dot, err, calls>>

\* lines 203-204
CloseDot ==
    /\ pc = "export"
    /\ k > Len(segments)
    /\ out' = Append(out, [kind |-> "end", from |-> 0, to |-> 0])
    /\ dot' = "closed"
    /\ pc' = "done"
    /\ UNCHANGED <<src, cur, last, dump, b, h, head_seg, segments, stack, arg, k, err, calls>>

Next ==
    \/ ReadHeader
    \/ DecodeHead
    \/ WalkEnter
    \/ WalkIter
    \/ WalkReturn
    \/ OpenDot
    \/ ExportSegment
    \/ CloseDot

Spec == Init /\ [][Next]_vars

FairSpec == Spec /\ WF_vars(Next)

(***************************************************************************)
(* The Cursor methods on their own: a Cursor is built over a byte string   *)
(* (position 0), may be moved on by one get_bytes, and one method is       *)
(* called on it.                                                           *)
(***************************************************************************)
MaxLen == 3
MaxRead == 4
MaxUpdates == 2
ByteVals == {0, 1, 2, 3, 127, 128, 150}

RECURSIVE SeqsUpTo(_, _)
SeqsUpTo(S, n) ==
    IF n = 0 THEN {<<>>}
    ELSE LET shorter == SeqsUpTo(S, n - 1) IN
         shorter \cup {Append(q, x) : q \in {t \in shorter : Len(t) = n - 1}, x \in S}

TestLocations == {<<0, 1>>, <<150, 2>>}

\* The inputs: any short byte string; a bounded list of Locations with its
\* count n and the entries that follow it; a command record.
RawInputs == {[kind |-> "raw", bytes |-> q] : q \in SeqsUpTo(ByteVals, MaxLen)}
PriorInputs ==
    {[kind |-> "prior", n |-> n, locs |-> q] :
        n \in {0, 1, 2, 3, 150}, q \in SeqsUpTo(TestLocations, 3)}
CommandInputs ==
    [kind : {"command"}, tagv : {0, 1, 2}, pv : {150}, policy : {<<>>, <<<<>>>>, <<<<4, 4>>>>},
     data : {<<>>, <<5, 6>>}, nu : 0..MaxUpdates]

BytesOf(i) ==
    CASE i.kind = "raw" -> i.bytes
      [] i.kind = "prior" ->
            EncLeb(i.n) \o Concat([j \in 1..Len(i.locs) |-> EncLocation(i.locs[j])])
      [] i.kind = "command" -> EncCommand(i.tagv, i.pv, i.policy, i.data, i.nu)

InitCursor ==
    /\ src \in RawInputs \cup PriorInputs \cup CommandInputs
    /\ cur = [b |-> BytesOf(src), c |-> 0, rkyv |-> FALSE]
    /\ last = NoCall
    /\ dump = [g |-> [x \in Slots |-> <<>>], gid |-> FALSE, defect |-> "none", at |-> 0]
    /\ b = [head |-> <<>>, body |-> <<>>]
    /\ pc = "cursor"
    /\ h = <<>>
    /\ head_seg = <<>>
    /\ segments = <<>>
    /\ stack = <<>>
    /\ arg = <<>>
    /\ dot = "unopened"
    /\ out = <<>>
    /\ k = 0
    /\ err = "none"
    /\ calls = <<>>

progVars == <<dump, b, pc, h, head_seg, segments, stack, arg, dot, out, k, err, calls>>

\* A method may be called on a fresh Cursor or on one a get_bytes has moved.
CanCall == pc = "cursor" /\ (last.op = "none" \/ (last.op = "get_bytes" /\ last.c0 = 0))

\* The call of a method: cur.c becomes the position it left, last the record.
Call(op, n, r) ==
    /\ cur' = [cur EXCEPT !.c = r.c]
    /\ last' = [op |-> op, n |-> n, c0 |-> cur.c, r |-> r]
    /\ UNCHANGED <<src, progVars>>

\* Cursor(b, rkyv=True), as Header builds it.
SetRkyv ==
    /\ pc = "cursor" /\ last.op = "none" /\ ~cur.rkyv /\ src.kind = "raw"
    /\ cur' = [cur EXCEPT !.rkyv = TRUE]
    /\ UNCHANGED <<src, last, progVars>>

CallGetU8 == CanCall /\ \E r \in {get_u8(cur.b, cur.c)} : Call("get_u8", 0, r)
CallGetBool == CanCall /\ \E r \in {get_bool(cur.b, cur.c)} : Call("get_bool", 0, r)
CallGetBytes ==
    CanCall /\ \E n \in 0..MaxRead : \E r \in {get_bytes(cur.b, cur.c, n)} : Call("get_bytes", n, r)
CallGetU16 == CanCall /\ \E r \in {get_u16(cur.b, cur.c, cur.rkyv)} : Call("get_u16", 2, r)
\* (on 4 bytes whose value is within the 32-bit signed integers of TLC)
CallGetU32 ==
    /\ CanCall
    /\ \A a \in {IF cur.rkyv THEN align(cur.c, 4) ELSE cur.c} :
          Len(cur.b) >= a + 4 => cur.b[a + 4] < 128
    /\ \E r \in {get_u32(cur.b, cur.c, cur.rkyv)} : Call("get_u32", 4, r)
CallGetLeb == CanCall /\ \E r \in {get_leb(cur.b, cur.c)} : Call("get_leb", 0, r)
CallGetByteArray ==
    CanCall /\ \E r \in {get_byte_array(cur.b, cur.c)} : Call("get_byte_array", 0, r)
CallGetArray ==
    CanCall /\ \E r \in {get_array("skip", cur.b, cur.c)} : Call("get_array", 0, r)
CallGetOption ==
    CanCall /\ \E r \in {get_option("byte_array", cur.b, cur.c)} : Call("get_option", 0, r)
CallGetPrior ==
    CanCall /\ \E r \in {Prior("location", cur.b, cur.c)} : Call("get_prior", 0, r)
CallCommandData ==
    CanCall /\ \E r \in {CommandData(cur.b, cur.c)} : Call("CommandData", 0, r)

NextCursor ==
    \/ SetRkyv
    \/ CallGetU8
    \/ CallGetBool
    \/ CallGetBytes
    \/ CallGetU16
    \/ CallGetU32
    \/ CallGetLeb
    \/ CallGetByteArray
    \/ CallGetArray
    \/ CallGetOption
    \/ CallGetPrior
    \/ CallCommandData

SpecCursor == InitCursor /\ [][NextCursor]_vars

(***************************************************************************)
(* What the dump holds, read off its description and not off the decoders. *)
(***************************************************************************)
SlotAt(offset) == CHOOSE x \in Slots : SlotOffset(x) = offset
IsSlot(offset) == \E x \in Slots : SlotOffset(x) = offset

\* The first components of the prior Locations stored at an offset.
TargetsAt(offset) ==
    IF IsSlot(offset)
    THEN {PriorOf(dump, SlotAt(offset))[j][1] : j \in 1..Len(PriorOf(dump, SlotAt(offset)))}
    ELSE {}

RECURSIVE ReachFrom(_, _)
ReachFrom(set, n) ==
    IF n = 0 THEN set
    ELSE ReachFrom(set \cup UNION {TargetsAt(o) : o \in set}, n - 1)

\* The offsets reachable from the head offset in zero or more prior steps.
Reachable == ReachFrom({SlotOffset(HeadSlot)}, NumSlots + 1)

\* How many entries of a sequence satisfy a test.

CallsAt(offset) == Cardinality({i \in 1..Len(calls) : calls[i].offset = offset})
WalkCallsAt(offset) ==
    Cardinality({i \in 1..Len(calls) : calls[i].offset = offset /\ calls[i].by = "walk"})
EdgeLines(s, t) ==
    Cardinality({i \in 1..Len(out) : out[i].kind = "edge" /\ out[i].from = s /\ out[i].to = t})
NodeLines(s) == Cardinality({i \in 1..Len(out) : out[i].kind = "node" /\ out[i].from = s})
PriorEntries(offset, t) ==
    IF IsSlot(offset)
    THEN LET ps == PriorOf(dump, SlotAt(offset)) IN Cardinality({i \in 1..Len(ps) : ps[i][1] = t})
    ELSE 0

Offsets == {SlotOffset(x) : x \in Slots} \cup {OutsideOffset}
CalledOffsets == {calls[i].offset : i \in 1..Len(calls)}
Terminated == pc \in {"done", "failed"}

\* C1 as stated: Segment(offset) is invoked at most once for each offset in a
\* run, the head offset included.
C1_DecodedAtMostOnce == \A o \in CalledOffsets : CallsAt(o) <= 1

\* C1 amended: walk_segment_tree invokes Segment(offset) at most once for each
\* offset whatever the number of prior references to it; the only other
\* invocation is the module's own Segment(h.head[0]) before the walk, so the
\* head offset is decoded at most twice and every other offset at most once.
C1_WalkDecodesOnce ==
    /\ \A o \in CalledOffsets : WalkCallsAt(o) <= 1
    /\ \A o \in CalledOffsets : o # SlotOffset(HeadSlot) => CallsAt(o) <= 1
    /\ CallsAt(SlotOffset(HeadSlot)) <= 2

\* A finished run in which two different segments of the map point to one
\* offset that is not the head, decoded once by the walk.
C1_Witness ==
    /\ pc = "done"
    /\ \E t \in Keys(segments) :
          /\ t # SlotOffset(HeadSlot)
          /\ Cardinality({o \in Keys(segments) : t \in TargetsAt(o)}) >= 2
          /\ WalkCallsAt(t) = 1

\* C2: once the walk has returned, the keys of segments are exactly the
\* offsets reachable from the head offset through the first components of
\* prior Locations, and each key maps to the Segment of that offset.
C2_MapIsReachableSet ==
    pc \in {"export", "done"} =>
        /\ Keys(segments) = Reachable
        /\ \A i \in 1..Len(segments) : segments[i].seg.offset = segments[i].key
        /\ \A i, j \in 1..Len(segments) : segments[i].key = segments[j].key => i = j

\* A finished walk that left a slot of the dump out and took two others in.
C2_Witness ==
    /\ pc = "export"
    /\ Cardinality(Keys(segments)) = 2
    /\ \E o \in Offsets : IsSlot(o) /\ o \notin Keys(segments)
    /\ TargetsAt(SlotOffset(HeadSlot)) # {}

\* The node lines and the edge lines of a finished export, by count.
ExportedNodes == \A s \in Offsets : NodeLines(s) = IF s \in Keys(segments) THEN 1 ELSE 0
ExportedEdges ==
    /\ \A s, t \in Offsets :
          EdgeLines(s, t) = IF s \in Keys(segments) THEN PriorEntries(s, t) ELSE 0
    /\ \A i \in 1..Len(out) :
          out[i].kind = "edge" => out[i].from \in Offsets /\ out[i].to \in Offsets

\* C3 as stated: one node per segment, one edge per prior entry, none from
\* parents, and no edge with the same source and target emitted twice.
C3_NoEdgeTwice ==
    pc = "done" =>
        /\ ExportedNodes
        /\ ExportedEdges
        /\ \A s, t \in Offsets : EdgeLines(s, t) <= 1

\* C3 amended: one node per segment of the map and, for each segment, one
\* edge per entry of its prior list from the segment's offset to the entry's
\* first component, none from parents; an edge is emitted twice exactly when
\* the two entries of one prior list have the same first component.
C3_OneEdgePerPriorEntry ==
    pc = "done" =>
        /\ ExportedNodes
        /\ ExportedEdges
        /\ \A s, t \in Offsets : EdgeLines(s, t) = 2 <=> PriorEntries(s, t) = 2 /\ s \in Keys(segments)
        /\ \A s, t \in Offsets : EdgeLines(s, t) <= 2

\* A finished export of a segment whose two prior entries name one offset,
\* with parents decoded for it.
C3_Witness ==
    /\ pc = "done"
    /\ \E i \in 1..Len(segments) :
          /\ Len(segments[i].seg.prior) = 2
          /\ segments[i].seg.prior[1][1] = segments[i].seg.prior[2][1]
          /\ Len(segments[i].seg.parents) = 2
          /\ EdgeLines(segments[i].key, segments[i].seg.prior[1][1]) = 2

\* C5: graph.dot is opened and written only after the header, the head
\* segment and every segment of the walk have been decoded; a run that a
\* decode step fails ends failed with graph.dot unopened and nothing written.
C5_NoOutputAfterFailure ==
    /\ (dot # "unopened" \/ out # <<>>) =>
          /\ pc \in {"export", "done"}
          /\ err = "none"
          /\ stack = <<>> /\ arg = <<>>
          /\ h # <<>> /\ head_seg # <<>>
          /\ dump.defect \in {"none"} \cup SegDefects
          /\ dump.defect \in SegDefects => SlotOffset(dump.at) \notin Reachable
    /\ err # "none" <=> pc = "failed"
    /\ pc = "failed" => dot = "unopened" /\ out = <<>>

\* A run that failed in the walk after it had stored a segment.
C5_Witness ==
    /\ pc = "failed"
    /\ Len(segments) >= 1
    /\ dot = "unopened"

MagicAt(offset) == FileSlice(b, offset + DATA_OFFSET, offset + DATA_OFFSET + 4)

\* C8: a dump that does not start with 1C 53 4F 00 fails in Header with the
\* cursor just past the magic; an offset whose 4 bytes at offset + DATA_OFFSET
\* are not 1E 53 4F 00 (none, past the end of the dump) fails in Segment with
\* nothing after the magic read, ends the run, and is not in the map.
C8_MagicMismatchIsFatal ==
    /\ FileSlice(b, 0, 4) # STORAGE_HEADER_MAGIC =>
          /\ ~Header(b).ok /\ Header(b).err = "bad header magic" /\ Header(b).c = 4
          /\ h = <<>> /\ calls = <<>>
          /\ pc \in {"header", "failed"}
          /\ pc = "failed" => err = "bad header magic"
    /\ \A i \in 1..Len(calls) :
          MagicAt(calls[i].offset) # SEGMENT_HEADER_MAGIC =>
              /\ i = Len(calls)
              /\ pc = "failed" /\ err = "bad segment header magic"
              /\ calls[i].offset \notin Keys(segments)
              /\ Segment(b, calls[i].offset).c = calls[i].offset + DATA_OFFSET + 4
    /\ \A o \in Keys(segments) : MagicAt(o) = SEGMENT_HEADER_MAGIC

\* A walk that failed on the magic of an offset past the end of the dump.
C8_Witness ==
    /\ pc = "failed"
    /\ err = "bad segment header magic"
    /\ Len(segments) >= 1
    /\ calls[Len(calls)].offset = OutsideOffset
    /\ MagicAt(OutsideOffset) = <<>>

\* C10: every run ends, done or failed, whatever the prior references of the
\* dump (earlier offsets, later ones, cycles, a segment's own offset), and not
\* by running out of recursion: a cycle is not followed round again.
C10_WalkTerminates == <>(Terminated /\ err # "RecursionError")

\* The walk never goes deeper than the number of segments it has stored.
DepthBounded == Len(stack) <= Len(segments) /\ Len(stack) < MaxDepth

\* A finished run over a dump where a segment's prior names its own offset
\* and two segments name each other.
C10_Witness ==
    /\ pc = "done"
    /\ \E o \in Keys(segments) : o \in TargetsAt(o)
    /\ \E o, t \in Keys(segments) : o # t /\ o \in TargetsAt(t) /\ t \in TargetsAt(o)

(***************************************************************************)
(* The claims about the Cursor methods, under SpecCursor.                  *)
(***************************************************************************)
Called(op) == last.op = op

\* C4: a read that would consume bytes past the end of the buffer fails; in
\* particular get_bytes(n) with fewer than n bytes left returns no shorter
\* byte string, and the position is never left beyond the buffer length.
C4_ReadPastEndFails ==
    /\ Called("get_bytes") /\ last.c0 + last.n > Len(cur.b) => ~last.r.ok
    /\ last.op # "none" /\ last.r.ok => last.r.c <= Len(cur.b)
    /\ cur.c <= Len(cur.b)

\* The position of the first byte at or after c with the high bit clear.
RECURSIVE LastOfVarint(_, _)
LastOfVarint(bs, c) == IF bs[c + 1] < 128 THEN c ELSE LastOfVarint(bs, c + 1)

ValidVarintAt(bs, c) == \E e \in c..(Len(bs) - 1) : bs[e + 1] < 128

\* The sum over i of (b_i mod 128) * 128^i for the bytes at c .. e.
RECURSIVE GroupSum(_, _, _, _)
GroupSum(bs, c, e, i) ==
    IF c + i > e THEN 0 ELSE (bs[c + i + 1] % 128) * Pow(128, i) + GroupSum(bs, c, e, i + 1)

\* C7: on bytes b0..bk, the first k with the high bit set and bk with it
\* clear, get_leb returns the sum of (bi mod 128) * 128^i and moves the
\* cursor on by k + 1; [00] is 0, [7F] 127, [80 01] 128, [96 01] 150.
C7_LebValue ==
    /\ Called("get_leb") /\ ValidVarintAt(cur.b, last.c0) =>
          /\ last.r.ok
          /\ last.r.v[1] = GroupSum(cur.b, last.c0, LastOfVarint(cur.b, last.c0), 0)
          /\ last.r.c = LastOfVarint(cur.b, last.c0) + 1
          /\ cur.c = last.r.c
    /\ Called("get_leb") /\ last.c0 = 0 /\ last.r.ok =>
          /\ cur.b = <<0>> => last.r.v[1] = 0
          /\ cur.b = <<127>> => last.r.v[1] = 127
          /\ cur.b = <<128, 1>> => last.r.v[1] = 128 /\ cur.c = 2
          /\ cur.b = <<150, 1>> => last.r.v[1] = 150 /\ cur.c = 2

\* get_leb has read a three-byte varint that starts after the first byte.
C7_Witness ==
    /\ Called("get_leb")
    /\ last.c0 = 1
    /\ cur.b = <<3, 150, 128, 1>> \/ cur.b = <<150, 128, 1>> \/ cur.b = <<3, 150, 1>>
    /\ last.r.ok
    /\ cur.c = Len(cur.b)

\* C6: Prior reads one varint count; a count above 2 fails with nothing read
\* past the count; a count of 0 gives the empty list with only the count
\* read; a count of 1 or 2 gives that many values, decoded one after the
\* other and in order.
C6_BoundedList ==
    Called("get_prior") /\ last.c0 = 0 /\ src.kind = "prior" =>
        /\ src.n > 2 =>
              /\ ~last.r.ok /\ last.r.err = "too many items in prior"
              /\ last.r.c = Len(EncLeb(src.n)) /\ cur.c = last.r.c
        /\ src.n = 0 => last.r.ok /\ last.r.v[1] = <<>> /\ cur.c = 1
        /\ src.n \in 1..2 /\ Len(src.locs) >= src.n =>
              /\ last.r.ok
              /\ last.r.v[1] = SubSeq(src.locs, 1, src.n)
              /\ cur.c = 1 + Len(Concat([j \in 1..src.n |-> EncLocation(src.locs[j])]))
        /\ src.n \in 1..2 /\ Len(src.locs) < src.n => ~last.r.ok

\* Prior has decoded two different Locations, with a third left unread.
C6_Witness ==
    /\ Called("get_prior") /\ last.c0 = 0 /\ src.kind = "prior"
    /\ src.n = 2 /\ Len(src.locs) = 3
    /\ last.r.ok
    /\ last.r.v[1] = <<<<150, 2>>, <<0, 1>>>>

\* C9: a well-formed CommandData record decodes: id, priority, the extra
\* varint priority_value exactly when priority is 1, policy, data, and each
\* of its n >= 0 update records.
C9_CommandDecodes ==
    Called("CommandData") /\ last.c0 = 0 /\ src.kind = "command" =>
        /\ last.r.ok
        /\ cur.c = Len(cur.b)
        /\ last.r.v[1].id = Hash(7)
        /\ last.r.v[1].priority = src.tagv
        /\ last.r.v[1].priority_value = (IF src.tagv = 1 THEN <<src.pv>> ELSE <<>>)
        /\ last.r.v[1].policy = src.policy
        /\ last.r.v[1].data = src.data
        /\ Len(last.r.v[1].updates) = src.nu

\* What the code does hold to: the record decodes as C9 says when it has no
\* update, and fails with AttributeError at the first update otherwise.
CommandWithoutUpdates ==
    Called("CommandData") /\ last.c0 = 0 /\ src.kind = "command" =>
        IF src.nu = 0 THEN C9_CommandDecodes
        ELSE ~last.r.ok /\ last.r.err = "AttributeError"

====
